---- MODULE Spec2Model ----
(***************************************************************************)
(* Reaction Time Tester (STM32F429ZI, Mbed OS): the interrupt-driven FSM   *)
(* of Reaction_Time_Tester.cpp.  Two button interrupt handlers (user,      *)
(* external) and the Timeout callbacks (tick, blinkRed) run to completion  *)
(* and preempt the foreground loop of main().                              *)
(*                                                                         *)
(* Time is counted in units of 100 ms (the period of the idle blink); the  *)
(* Timer t keeps microseconds, as Mbed's Timer::elapsed_time() does: its   *)
(* 64-bit count is held as whole milliseconds (ms) and the microseconds    *)
(* beyond them (us), count = ms * 1000 + us.                               *)
(***************************************************************************)
EXTENDS Integers, Sequences, FiniteSets, TLC

\* ------------------------------------------------------------ constants
INT_MAX == 2147483647

\* timeout.attach(&tick, 100ms): one time unit
TickDelay == 1

\* timeout.attach(&blinkRed, 300ms): three time units
BlinkRedDelay == 3

\* microseconds in one time unit of 100 ms
UnitUs == 100000

\* microseconds in a millisecond (duration_cast<milliseconds>)
UsPerMs == 1000

\* bound: the running Timer is followed for at most MaxTime time units
MaxTime == 3

\* ------------------------------------------------------------ state
VARIABLES
    state,          \* int state: 0 Idle, 1 Armed, 2 Complete
    reaction,       \* bool reaction
    pB,             \* int pB, INT_MAX when there is no best time
    elapsed,        \* uint64_t elapsed (ms)
    bufferElapsed,  \* char bufferElapsed[32]
    bufferpB,       \* char bufferpB[32]
    green,          \* DigitalOut green
    red,            \* DigitalOut red
    timeout,        \* Timeout timeout: the events it has queued, each [fn, rem]
    t,              \* Timer t: [running, ms, us], the count is ms * 1000 + us
    starts,         \* number of effective t.start() since Armed was entered
    LCD,            \* what the LCD shows on rows 40 and 80
    pc,             \* position of main()
    irq,            \* the button handlers are attached (fall(&user), fall(&external))
    greenRead,      \* main()'s read of green inside green = !green
    shown,          \* what main()'s loop has read in its current iteration
    published,      \* history: the buffer pairs the handlers have left
    last,           \* history: the handler that ran last
    pre             \* history: the globals when that handler was entered

prog == <<state, reaction, pB, elapsed, bufferElapsed, bufferpB, green, red,
          timeout, t, starts, LCD>>

vars == <<state, reaction, pB, elapsed, bufferElapsed, bufferpB, green, red,
          timeout, t, starts, LCD, pc, irq, greenRead, shown, published,
          last, pre>>

\* The globals as one record, so that a handler is a function from globals
\* to globals and a handler calling tick() is a composition.
Cur ==
    [state |-> state, reaction |-> reaction, pB |-> pB, elapsed |-> elapsed,
     bufferElapsed |-> bufferElapsed, bufferpB |-> bufferpB,
     green |-> green, red |-> red, timeout |-> timeout, t |-> t,
     starts |-> starts, LCD |-> LCD, last |-> last]

Set(g) ==
    /\ state' = g.state
    /\ reaction' = g.reaction
    /\ pB' = g.pB
    /\ elapsed' = g.elapsed
    /\ bufferElapsed' = g.bufferElapsed
    /\ bufferpB' = g.bufferpB
    /\ green' = g.green
    /\ red' = g.red
    /\ timeout' = g.timeout
    /\ t' = g.t
    /\ starts' = g.starts
    /\ LCD' = g.LCD

\* ------------------------------------------------------------ buffers, LCD
\* A zeroed buffer (static storage, or after memset(buf, 0, sizeof buf)).
Empty == [fmt |-> "", arg |-> 0]

\* sprintf(bufferElapsed, "The time taken was %llu ms", elapsed)
FormatElapsed(e) == [fmt |-> "The time taken was %llu ms", arg |-> e]

\* sprintf(bufferpB, "Personal Best: %d ms", pB)
FormatpB(p) == [fmt |-> "Personal Best: %d ms", arg |-> p]

\* LCD.Clear(LCD_COLOR_WHITE)
ClearLCD == [row40 |-> Empty, row80 |-> Empty]

\* LCD.DisplayStringAt(0, row, buf, LEFT_MODE): draws the characters of buf,
\* so an empty string draws nothing and leaves the row as it was.
DisplayStringAt(lcd, row, buf) ==
    IF buf = Empty THEN lcd ELSE [lcd EXCEPT ![row] = buf]

\* ------------------------------------------------------------ Timer t
TimerStart(tm) == [tm EXCEPT !.running = TRUE]

TimerStop(tm) == [tm EXCEPT !.running = FALSE]

TimerReset(tm) == [tm EXCEPT !.ms = 0, !.us = 0]

\* The running Timer counts d microseconds on.
TimerAdd(tm, d) ==
    [tm EXCEPT !.ms = tm.ms + ((tm.us + d) \div UsPerMs),
               !.us = (tm.us + d) % UsPerMs]

\* duration_cast<std::chrono::milliseconds>(t.elapsed_time()).count():
\* the count divided by 1000 and rounded towards zero,
\* (ms * 1000 + us) \div 1000 = ms + us \div 1000.
ElapsedMs(tm) == tm.ms + (tm.us \div UsPerMs)

\* ------------------------------------------------------------ Timeout timeout
\* Timeout::attach: the object's queued event is removed, then the new one is
\* inserted, so one Timeout object has at most one event outstanding.
\* (variant: the queued event is not removed, so events stack)
attach_Stack(q, fn, delay) == Append(q, [fn |-> fn, rem |-> delay])

attach(q, fn, delay) == Append(<<>>, [fn |-> fn, rem |-> delay])

RemoveAt(q, i) == [j \in 1..(Len(q) - 1) |-> IF j < i THEN q[j] ELSE q[j + 1]]

Pending(q) == [j \in 1..Len(q) |-> q[j].fn]

\* ------------------------------------------------------------ FSM functions
\* reaction1() is declared and defined but has no caller and is attached to
\* no Timeout, Ticker or interrupt: it is part of no action below.
reaction1(g) ==
    [g EXCEPT !.elapsed = 0,
              !.green = 1,
              !.t = TimerStart(g.t),
              !.starts = IF g.t.running THEN g.starts ELSE g.starts + 1,
              !.reaction = TRUE]

blinkRed(g) ==
    [g EXCEPT !.red = 1 - g.red,
              !.timeout = attach(g.timeout, "blinkRed", BlinkRedDelay)]

\* (variant: the idle branch re-arms without toggling green)
tick_NoToggle(g) ==
    IF g.state = 0
    THEN [g EXCEPT !.timeout = attach(g.timeout, "tick", TickDelay)]
    ELSE IF g.state = 1
    THEN [g EXCEPT !.reaction = FALSE,
                   !.t = TimerReset(g.t)]
    ELSE IF g.state = 2
    THEN blinkRed(g)
    ELSE g

\* (variant: the Idle branch does not re-arm itself)
tick_NoRearm(g) ==
    IF g.state = 0
    THEN [g EXCEPT !.green = 1 - g.green]
    ELSE IF g.state = 1
    THEN [g EXCEPT !.reaction = FALSE,
                   !.t = TimerReset(g.t)]
    ELSE IF g.state = 2
    THEN blinkRed(g)
    ELSE g

tick(g) ==
    IF g.state = 0
    THEN [g EXCEPT !.green = 1 - g.green,
                   !.timeout = attach(g.timeout, "tick", TickDelay)]
    ELSE IF g.state = 1
    THEN [g EXCEPT !.reaction = FALSE,
                   !.t = TimerReset(g.t)]
    ELSE IF g.state = 2
    THEN blinkRed(g)
    ELSE g

\* ------------------------------------------------------------ interrupt handlers
\* if (elapsed < pB) pB = elapsed: the value pB holds afterwards
Best(e, p) == IF e < p THEN e ELSE p

\* The valid-press branch of user(), lines 134-148, with the new best time p.
Complete(g, e, p) ==
    tick([g EXCEPT !.t = TimerStop(g.t),
                   !.elapsed = e,
                   !.bufferElapsed = FormatElapsed(e),
                   !.pB = p,
                   !.bufferpB = FormatpB(p),
                   !.green = 0,
                   !.state = 2])

\* (variant: pB = elapsed without the comparison)
user_AlwaysBest(g) ==
    IF g.state = 0
    THEN tick([g EXCEPT !.state = 1, !.green = 0, !.starts = 0])
    ELSE IF g.state = 1 /\ g.reaction = TRUE /\ g.elapsed >= 0
    THEN Complete(g, ElapsedMs(g.t), ElapsedMs(g.t))
    ELSE IF g.state = 2
    THEN tick([g EXCEPT !.state = 0, !.red = 0])
    ELSE tick([g EXCEPT !.state = 0])

\* (variant: the invalid-press branch does not call tick())
user_NoRearm(g) ==
    IF g.state = 0
    THEN tick([g EXCEPT !.state = 1, !.green = 0, !.starts = 0])
    ELSE IF g.state = 1 /\ g.reaction = TRUE /\ g.elapsed >= 0
    THEN Complete(g, ElapsedMs(g.t), Best(ElapsedMs(g.t), g.pB))
    ELSE IF g.state = 2
    THEN tick([g EXCEPT !.state = 0, !.red = 0])
    ELSE [g EXCEPT !.state = 0]

\* (variant: the invalid-press branch enters a fourth state)
user_CheatState(g) ==
    IF g.state = 0
    THEN tick([g EXCEPT !.state = 1, !.green = 0, !.starts = 0])
    ELSE IF g.state = 1 /\ g.reaction = TRUE /\ g.elapsed >= 0
    THEN Complete(g, ElapsedMs(g.t), Best(ElapsedMs(g.t), g.pB))
    ELSE IF g.state = 2
    THEN tick([g EXCEPT !.state = 0, !.red = 0])
    ELSE tick([g EXCEPT !.state = 3])

\* (variant: the restart branch does not write red = 0)
user_KeepRed(g) ==
    IF g.state = 0
    THEN tick([g EXCEPT !.state = 1, !.green = 0, !.starts = 0])
    ELSE IF g.state = 1 /\ g.reaction = TRUE /\ g.elapsed >= 0
    THEN Complete(g, ElapsedMs(g.t), Best(ElapsedMs(g.t), g.pB))
    ELSE IF g.state = 2
    THEN tick([g EXCEPT !.state = 0])
    ELSE tick([g EXCEPT !.state = 0])

\* (variant: the Idle branch starts the Timer before it calls tick())
user_StartsTimer(g) ==
    IF g.state = 0
    THEN tick([g EXCEPT !.state = 1, !.green = 0, !.starts = 0,
                        !.t = TimerStart(g.t)])
    ELSE IF g.state = 1 /\ g.reaction = TRUE /\ g.elapsed >= 0
    THEN Complete(g, ElapsedMs(g.t), Best(ElapsedMs(g.t), g.pB))
    ELSE IF g.state = 2
    THEN tick([g EXCEPT !.state = 0, !.red = 0])
    ELSE tick([g EXCEPT !.state = 0])

user(g) ==
    IF g.state = 0
    THEN tick([g EXCEPT !.state = 1, !.green = 0, !.starts = 0])
    ELSE IF g.state = 1 /\ g.reaction = TRUE /\ g.elapsed >= 0
    THEN Complete(g, ElapsedMs(g.t), Best(ElapsedMs(g.t), g.pB))
    ELSE IF g.state = 2
    THEN tick([g EXCEPT !.state = 0, !.red = 0])
    ELSE tick([g EXCEPT !.state = 0])

\* (variant: state is not set to 0)
external_KeepState(g) ==
    tick([g EXCEPT !.pB = INT_MAX,
                   !.elapsed = 0,
                   !.reaction = FALSE,
                   !.bufferElapsed = Empty,
                   !.bufferpB = Empty,
                   !.LCD = ClearLCD,
                   !.red = 0])

external(g) ==
    tick([g EXCEPT !.state = 0,
                   !.pB = INT_MAX,
                   !.elapsed = 0,
                   !.reaction = FALSE,
                   !.bufferElapsed = Empty,
                   !.bufferpB = Empty,
                   !.LCD = ClearLCD,
                   !.red = 0])

\* ------------------------------------------------------------ initial state
\* Static initialisation: the globals as declared, no event queued, the
\* Timer stopped at 0, main() not yet started.
Init ==
    /\ state = 0
    /\ reaction = FALSE
    /\ pB = INT_MAX
    /\ elapsed = 0
    /\ bufferElapsed = Empty
    /\ bufferpB = Empty
    /\ green = 0
    /\ red = 0
    /\ timeout = <<>>
    /\ t = [running |-> FALSE, ms |-> 0, us |-> 0]
    /\ starts = 0
    /\ LCD = ClearLCD
    /\ pc = "init"
    /\ irq = FALSE
    /\ greenRead = 0
    /\ shown = [elapsed |-> Empty, pB |-> Empty, whole |-> FALSE]
    /\ published = {<<bufferElapsed, bufferpB>>}
    /\ last = "none"
    /\ pre = Cur

\* Handler entry states: main() is in its display loop, the handlers are
\* attached, and the globals hold any values of their declared types (within
\* the sets below).  A handler's contract is checked from each of them.
EntryTimes ==
    {[ms |-> 0, us |-> 999], [ms |-> 200, us |-> 0], [ms |-> 237, us |-> 0]}

EntrypB == {150, 237, INT_MAX}

EntryElapsed == {0, 237}

EntryTimeouts ==
    {<<>>,
     <<[fn |-> "tick", rem |-> 0]>>, <<[fn |-> "tick", rem |-> TickDelay]>>,
     <<[fn |-> "blinkRed", rem |-> 0]>>,
     <<[fn |-> "blinkRed", rem |-> BlinkRedDelay]>>}

EntryStates(times) ==
    /\ state \in 0..2
    /\ reaction \in BOOLEAN
    /\ pB \in EntrypB
    /\ elapsed \in EntryElapsed
    /\ \/ bufferElapsed = Empty /\ bufferpB = Empty
       \/ bufferElapsed = FormatElapsed(elapsed) /\ bufferpB = FormatpB(pB)
    /\ green \in {0, 1}
    /\ red \in {0, 1}
    /\ timeout \in EntryTimeouts
    /\ t \in {[running |-> r, ms |-> x.ms, us |-> x.us] :
                 r \in BOOLEAN, x \in times}
    /\ starts = 0
    /\ LCD = ClearLCD
    /\ pc = "loop_elapsed"
    /\ irq = TRUE
    /\ greenRead = 0
    /\ shown = [elapsed |-> Empty, pB |-> Empty, whole |-> FALSE]
    /\ published = {<<bufferElapsed, bufferpB>>}
    /\ last = "none"
    /\ pre = Cur

HandlerInit == EntryStates(EntryTimes)

\* The stopwatch left alone for INT_MAX ms (24.8 days) and more.
LongWait == [ms |-> INT_MAX, us |-> 0]

\* red is written by blinkRed() and cleared by user() and external() on
\* their way to Idle: outside Complete it is OFF and no blinkRed is queued.
RedOnlyInComplete ==
    state # 2 =>
        /\ red = 0
        /\ \A i \in 1..Len(timeout) : timeout[i].fn # "blinkRed"

\* The buffers are written by a completion (lines 138, 144) and zeroed by
\* external() (lines 174-175), which also unsets pB: pB holds a result only
\* when the buffers hold one.
ResultOnlyAfterCompletion == (bufferElapsed = Empty) => (pB = INT_MAX)

\* Handler entry states as the handlers themselves leave them: those of
\* EntryStates in which red and the record are as above.
StableInit ==
    /\ EntryStates(EntryTimes \cup {LongWait})
    /\ RedOnlyInComplete
    /\ ResultOnlyAfterCompletion

\* ------------------------------------------------------------ actions
\* A handler runs to completion: the globals become h(Cur), and the history
\* records the handler and the globals it was entered with.
Handler(name, g) ==
    /\ Set(g)
    /\ last' = name
    /\ pre' = Cur
    /\ published' = published \cup {<<g.bufferElapsed, g.bufferpB>>}
    /\ UNCHANGED <<pc, irq, greenRead, shown>>

\* userButton.fall(&user): a press of the onboard button
User ==
    /\ irq
    /\ Handler("user", user(Cur))

\* external_button.fall(&external): a press of the external button
External ==
    /\ irq
    /\ Handler("external", external(Cur))

\* An event of the Timeout comes due: Timeout::handler() takes the event off
\* the queue and then calls the attached function.
TimeoutFire ==
    \E i \in 1..Len(timeout) :
        /\ timeout[i].rem = 0
        /\ LET g == [Cur EXCEPT !.timeout = RemoveAt(timeout, i)]
           IN  IF timeout[i].fn = "tick"
               THEN Handler("tick", tick(g))
               ELSE Handler("blinkRed", blinkRed(g))

\* 100 ms pass: no queued event is overdue, every queued event comes 100 ms
\* nearer and a running Timer counts on.
Advance ==
    /\ \A i \in 1..Len(timeout) : timeout[i].rem > 0
    /\ t.running => t.ms < MaxTime * (UnitUs \div UsPerMs)
    /\ timeout' = [i \in 1..Len(timeout) |->
                     [timeout[i] EXCEPT !.rem = timeout[i].rem - 1]]
    /\ t' = IF t.running THEN TimerAdd(t, UnitUs) ELSE t
    /\ UNCHANGED <<state, reaction, pB, elapsed, bufferElapsed, bufferpB,
                   green, red, starts, LCD, pc, irq, greenRead, shown,
                   published, last, pre>>

\* main(), one statement at a time; the handlers may run between any two.
MainStep(g, nextpc) ==
    /\ Set(g)
    /\ pc' = nextpc
    /\ last' = "main"
    /\ pre' = Cur
    /\ UNCHANGED <<shown, published>>

main ==
    CASE pc = "init" ->
            /\ MainStep([Cur EXCEPT !.green = 0, !.red = 0], "tick_test")
            /\ irq' = TRUE
            /\ UNCHANGED greenRead
      [] pc = "tick_test" ->
            /\ pc' = IF state = 0 THEN "tick_green_read"
                     ELSE IF state = 1 THEN "tick_reaction"
                     ELSE IF state = 2 THEN "tick_blinkRed"
                     ELSE "loop_elapsed"
            /\ UNCHANGED <<prog, irq, greenRead, shown, published, last, pre>>
      [] pc = "tick_green_read" ->
            /\ greenRead' = green
            /\ pc' = "tick_green_write"
            /\ UNCHANGED <<prog, irq, shown, published, last, pre>>
      [] pc = "tick_green_write" ->
            /\ MainStep([Cur EXCEPT !.green = 1 - greenRead], "tick_attach")
            /\ UNCHANGED <<irq, greenRead>>
      [] pc = "tick_attach" ->
            /\ MainStep([Cur EXCEPT !.timeout = attach(timeout, "tick", TickDelay)],
                        "loop_elapsed")
            /\ UNCHANGED <<irq, greenRead>>
      [] pc = "tick_reaction" ->
            /\ MainStep([Cur EXCEPT !.reaction = FALSE, !.t = TimerReset(t)],
                        "loop_elapsed")
            /\ UNCHANGED <<irq, greenRead>>
      [] pc = "tick_blinkRed" ->
            /\ MainStep(blinkRed(Cur), "loop_elapsed")
            /\ UNCHANGED <<irq, greenRead>>
      [] pc = "loop_elapsed" ->
            /\ LCD' = DisplayStringAt(LCD, "row40", bufferElapsed)
            /\ shown' = [elapsed |-> bufferElapsed, pB |-> shown.pB,
                         whole |-> FALSE]
            /\ pc' = "loop_pB"
            /\ UNCHANGED <<state, reaction, pB, elapsed, bufferElapsed, bufferpB,
                           green, red, timeout, t, starts, irq, greenRead,
                           published, last, pre>>
      [] pc = "loop_pB" ->
            /\ LCD' = DisplayStringAt(LCD, "row80", bufferpB)
            /\ shown' = [elapsed |-> shown.elapsed, pB |-> bufferpB,
                         whole |-> TRUE]
            /\ pc' = "loop_elapsed"
            /\ UNCHANGED <<state, reaction, pB, elapsed, bufferElapsed, bufferpB,
                           green, red, timeout, t, starts, irq, greenRead,
                           published, last, pre>>

Next == User \/ External \/ TimeoutFire \/ Advance \/ main

Spec == Init /\ [][Next]_vars

\* The hardware runs on: a due Timeout event is delivered, time passes and
\* main() is scheduled.  No button press is ever forced.
FairSpec ==
    /\ Init
    /\ [][Next]_vars
    /\ WF_vars(TimeoutFire)
    /\ WF_vars(Advance)
    /\ WF_vars(main)

\* The handlers as state transformers, from every handler entry state.
HandlerSpec == HandlerInit /\ [][Next]_vars

\* The program from its start and from every stable handler entry state.
StableStart == Init \/ StableInit

StableSpec == StableStart /\ [][Next]_vars

\* ------------------------------------------------------------ claims
Min(a, b) == IF a < b THEN a ELSE b

\* The measurable sub-phase of Armed: the go signal is on and the stopwatch runs.
Measurable == state = 1 /\ reaction = TRUE /\ green = 1 /\ t.running

\* C1: after a press of the onboard button taken in Idle, and with no further
\* button event, the machine eventually reaches the measurable sub-phase of
\* Armed (reaction flag true, green ON, stopwatch running).  state becomes 1
\* only by user() taken in Idle and stops being 1 only by a button handler,
\* so "no further button event" is "state stays 1".
C1_ArmedBecomesMeasurable == (state = 1) ~> (Measurable \/ state # 1)

\* C2: a press of the onboard button taken in Idle leads to Armed, and when
\* Armed is left the stopwatch has been started exactly once since it was
\* entered.
C2_PressStartsStopwatchOnce ==
    /\ (last = "user" /\ pre.state = 0) => state = 1
    /\ (last \in {"user", "external"} /\ pre.state = 1 /\ state # 1) => starts = 1

\* C3: user() entered with state = 1 and the reaction flag true leads to
\* Complete, stops the stopwatch, sets elapsed to the stopwatch's reading in
\* ms (>= 0), and sets pB to elapsed iff pB was unset or elapsed < pB, else
\* leaves it: the new pB is the minimum of the old pB and elapsed.
C3_ValidPressCompletes ==
    (last = "user" /\ pre.state = 1 /\ pre.reaction) =>
        /\ state = 2
        /\ ~t.running
        /\ elapsed = pre.t.ms
        /\ elapsed >= 0
        /\ pB = (IF pre.pB = INT_MAX \/ elapsed < pre.pB THEN elapsed ELSE pre.pB)
        /\ pB = Min(pre.pB, elapsed)

\* Scenario 2: no best time, the stopwatch at 237 ms, a valid press.
C3_Witness ==
    /\ last = "user" /\ pre.state = 1 /\ pre.reaction
    /\ pre.pB = INT_MAX /\ pre.t.running /\ pre.t.ms = 237 /\ pre.t.us = 0
    /\ state = 2 /\ elapsed = 237 /\ pB = 237

\* C4: user() entered with state = 1 and the reaction flag false (a press
\* before the go signal) leads to Idle, arms blink-idle, and leaves pB,
\* elapsed and both buffers as they were.
C4_PrematurePress ==
    (last = "user" /\ pre.state = 1 /\ ~pre.reaction) =>
        /\ state = 0
        /\ Pending(timeout) = <<"tick">>
        /\ pB = pre.pB
        /\ elapsed = pre.elapsed
        /\ bufferElapsed = pre.bufferElapsed
        /\ bufferpB = pre.bufferpB

C4_Witness ==
    /\ last = "user" /\ pre.state = 1 /\ ~pre.reaction
    /\ pre.timeout = <<>>
    /\ state = 0 /\ Pending(timeout) = <<"tick">>

\* C5: after external(), taken in any state, the machine is in Idle, pB is
\* INT_MAX, elapsed is 0, the reaction flag is false, both buffers are empty,
\* and the one queued callback is blink-idle (whatever was queued before is
\* gone).
C5_ResetClears ==
    last = "external" =>
        /\ state = 0
        /\ pB = INT_MAX
        /\ elapsed = 0
        /\ reaction = FALSE
        /\ bufferElapsed = Empty
        /\ bufferpB = Empty
        /\ Pending(timeout) = <<"tick">>

\* A reset taken in Armed while the stale blink-idle event is still queued.
C5_Witness ==
    /\ last = "external" /\ pre.state = 1 /\ Pending(pre.timeout) = <<"tick">>
    /\ state = 0 /\ timeout = <<[fn |-> "tick", rem |-> TickDelay]>>

\* C6 as stated: right after external() both actuators are OFF.
C6_BothOffAfterReset == last = "external" => (red = 0 /\ green = 0)

\* C6 as amended: right after external() red is OFF and green is the
\* complement of what it was when external() was entered (external() ends in
\* tick(), whose idle branch toggles green).
C6_RedOffGreenToggled == last = "external" => (red = 0 /\ green = 1 - pre.green)

C6_Witness == last = "external" /\ pre.green = 0 /\ green = 1 /\ red = 0

\* C7: two external() in a row leave what one leaves: the same state, pB,
\* elapsed, reaction flag, buffers and queued callbacks, that is Idle, the
\* record cleared and exactly one blink-idle queued.
C7_ResetIdempotent ==
    (last = "external" /\ pre.last = "external") =>
        /\ state = pre.state
        /\ pB = pre.pB
        /\ elapsed = pre.elapsed
        /\ reaction = pre.reaction
        /\ bufferElapsed = pre.bufferElapsed
        /\ bufferpB = pre.bufferpB
        /\ Pending(timeout) = Pending(pre.timeout)
        /\ state = 0 /\ pB = INT_MAX /\ elapsed = 0
        /\ Pending(timeout) = <<"tick">>

C7_Witness ==
    /\ last = "external" /\ pre.last = "external"
    /\ Pending(pre.timeout) = <<"tick">> /\ Pending(timeout) = <<"tick">>

\* C8: state is always 0, 1 or 2, and user() takes one of its branches:
\* Idle to Armed, Armed to Complete or Idle, Complete to Idle.
C8_StateInRange ==
    /\ state \in {0, 1, 2}
    /\ last = "user" =>
          \/ pre.state = 0 /\ state = 1
          \/ pre.state = 1 /\ state \in {0, 2}
          \/ pre.state = 2 /\ state = 0

C8_Witness == last = "user" /\ pre.state = 1 /\ state = 0

\* A handler that ends in Idle or Complete, and blinkRed(), have armed the
\* Timeout.
HasArmed(name) ==
    \/ name = "blinkRed"
    \/ name \in {"user", "external", "tick"} /\ state \in {0, 2}

\* C9: at most one callback is queued; after arming, also when one was
\* queued, exactly one is queued (one firing to come), and it is the one
\* armed last.
C9_OnePending ==
    /\ Len(timeout) <= 1
    /\ HasArmed(last) =>
          /\ Len(timeout) = 1
          /\ timeout[1].fn = (IF last = "blinkRed" \/ state = 2
                               THEN "blinkRed" ELSE "tick")

\* Armed twice in succession: external() with blink-idle queued, entered
\* right after a handler that had armed it.
C9_Witness ==
    /\ last = "external" /\ pre.last \in {"user", "external", "tick"}
    /\ Len(pre.timeout) = 1 /\ Len(timeout) = 1

\* C10: no step other than external() raises pB, and right after the
\* completion update of user() pB <= elapsed.
C10_BestNeverIncreases ==
    /\ [][External \/ pB' <= pB]_vars
    /\ []((last = "user" /\ pre.state = 1 /\ pre.reaction) => pB <= elapsed)

\* Scenario 4: best 150, a valid press at 200 ms: elapsed 200, best stays 150.
C10_Witness ==
    /\ last = "user" /\ pre.state = 1 /\ pre.reaction
    /\ pre.pB = 150 /\ elapsed = 200 /\ pB = 150

\* C11: there is no terminal state.  Once main() has attached the handlers
\* (its first step) a press of either button is always taken, a press of the
\* reset button leads to Idle, and some step is always possible; before that
\* first step main() itself can run.
C11_NoTerminalState ==
    /\ [](\/ ENABLED External /\ ENABLED User
          \/ pc = "init" /\ ENABLED main)
    /\ [][External => state' = 0]_vars
    /\ [](ENABLED Next)

\* A reset taken in Armed after the blink-idle chain has ended: nothing is
\* queued there, and only a button can move the machine on.
C11_Witness ==
    /\ last = "external" /\ pre.state = 1 /\ pre.timeout = <<>>
    /\ state = 0

C13_RedOffOutsideComplete ==
    /\ state # 2 => (red = 0 /\ "blinkRed" \notin {timeout[i].fn : i \in 1..Len(timeout)})
    /\ (last = "blinkRed") => state = 2

\* Complete with red ON and blinkRed queued, left by the onboard button.
C13_Witness ==
    /\ last = "user" /\ pre.state = 2 /\ pre.red = 1
    /\ Pending(pre.timeout) = <<"blinkRed">>
    /\ state = 0 /\ red = 0 /\ Pending(timeout) = <<"tick">>

\* C14: once main() has made its start-up call of tick(), whenever state is
\* 0 exactly one event is queued and it is tick, whatever presses, resets
\* and firings came before; hence, when due events are delivered and the
\* machine stays in Idle, green is ON infinitely often and OFF infinitely
\* often.
C14_IdleKeepsBlinking ==
    /\ []((pc \in {"loop_elapsed", "loop_pB"} /\ state = 0) =>
             Pending(timeout) = <<"tick">>)
    /\ (<>[](state = 0)) => ([]<>(green = 1) /\ []<>(green = 0))

\* Idle re-entered by a press, and the tick that press armed has fired and
\* armed its successor.
C14_Witness ==
    /\ last = "tick" /\ pre.last \in {"user", "external"} /\ pre.state = 0
    /\ pc \in {"loop_elapsed", "loop_pB"}
    /\ state = 0 /\ green # pre.green /\ Pending(timeout) = <<"tick">>

\* C15: in state 1 with the reaction flag false green is OFF, and a tick
\* that fires in state 1 neither toggles green nor queues another event.
C15_GreenOffWhileWaiting ==
    /\ (state = 1 /\ ~reaction) => green = 0
    /\ (last = "tick" /\ pre.state = 1) =>
           (green = pre.green /\ timeout = <<>>)

====
